---- MODULE Spec2Model ----
(***************************************************************************)
(* Vehicle-registration pipeline: load_data, clean_data,                   *)
(* calculate_growth_metrics, save_to_sqlite and process_data of            *)
(* src/process_data.py, as a state machine over small tables.              *)
(*                                                                         *)
(* Text is a sequence of one-character strings, so that the string         *)
(* operations of the code (strip, lower, upper, title, replace, regex      *)
(* filtering, parsing) are computed character by character.  Numbers are   *)
(* exact rationals [t |-> "num", n, d]; the float results a division can   *)
(* produce besides a number, NaN and +/-inf, are values of their own.      *)
(***************************************************************************)
EXTENDS Integers, Sequences, FiniteSets, TLC

VARIABLES
    gdf,      \* SpecGrowth: the cleaned table handed to calculate_growth_metrics
    gcol,     \* SpecGrowth: the group_col argument of the last call ("" before any)
    gout,     \* SpecGrowth: what the last call returned
    files,    \* SpecClean: the CSV files of the data directory, in listdir order
    loaded,   \* SpecClean: the value returned by load_data
    cleaned,  \* SpecClean: the outcome of clean_data
    metrics,  \* SpecClean: the outcome of calculate_growth_metrics on the cleaned table
    cpc,      \* SpecClean: position in the load/clean/metrics sequence
    db,       \* Spec: the SQLite store, relation name -> table or Absent
    outdir,   \* Spec: the kinds of CSV files written to output_dir, per run
    run,      \* Spec: number of process_data invocations so far
    last,     \* Spec: input and outcome of the latest process_data invocation
    dbfile,   \* Spec: whether the database file vehicle_data.db exists
    procdir,  \* Spec: whether the directory processed_data exists
    dash      \* Spec: outcome of the latest run of the dashboard script

vars ==
    <<gdf, gcol, gout, files, loaded, cleaned, metrics, cpc, db, outdir, run, last,
      dbfile, procdir, dash>>

-----------------------------------------------------------------------------
(* Characters and text *)

Digits == <<"0", "1", "2", "3", "4", "5", "6", "7", "8", "9">>

UpperAlpha ==
    <<"A", "B", "C", "D", "E", "F", "G", "H", "I", "J", "K", "L", "M",
      "N", "O", "P", "Q", "R", "S", "T", "U", "V", "W", "X", "Y", "Z">>

LowerAlpha ==
    <<"a", "b", "c", "d", "e", "f", "g", "h", "i", "j", "k", "l", "m",
      "n", "o", "p", "q", "r", "s", "t", "u", "v", "w", "x", "y", "z">>

\* The characters that occur, in code-point order.
Ascii ==
    <<" ", "$", "&", ",", "-", ".", "/">> \o Digits \o UpperAlpha \o <<"_">> \o LowerAlpha

Range(s) == {s[i] : i \in 1..Len(s)}

IndexOf(seq, c) == CHOOSE i \in 1..Len(seq) : seq[i] = c

Code(c) == IndexOf(Ascii, c)

IsDigit(c) == c \in Range(Digits)

IsAlpha(c) == c \in Range(UpperAlpha) \cup Range(LowerAlpha)

DigitVal(c) == IndexOf(Digits, c) - 1

char_lower(c) == IF c \in Range(UpperAlpha) THEN LowerAlpha[IndexOf(UpperAlpha, c)] ELSE c

char_upper(c) == IF c \in Range(LowerAlpha) THEN UpperAlpha[IndexOf(LowerAlpha, c)] ELSE c

\* str.lower()
str_lower(s) == [i \in 1..Len(s) |-> char_lower(s[i])]

\* str.upper()
str_upper(s) == [i \in 1..Len(s) |-> char_upper(s[i])]

\* str.title(): a letter that follows a non-letter (or starts the text) is
\* upper-cased, every other letter is lower-cased.
str_title(s) ==
    [i \in 1..Len(s) |->
        IF i = 1 \/ ~IsAlpha(s[i - 1]) THEN char_upper(s[i]) ELSE char_lower(s[i])]

\* str.replace(a, b) for one-character a and b
str_replace(s, a, b) == [i \in 1..Len(s) |-> IF s[i] = a THEN b ELSE s[i]]

RECURSIVE lstrip(_)
lstrip(s) == IF s # <<>> /\ Head(s) = " " THEN lstrip(Tail(s)) ELSE s

RECURSIVE rstrip(_)
rstrip(s) == IF s # <<>> /\ s[Len(s)] = " " THEN rstrip(SubSeq(s, 1, Len(s) - 1)) ELSE s

\* str.strip()
str_strip(s) == rstrip(lstrip(s))

\* `sub in s`
Contains(s, sub) ==
    \E i \in 0..(Len(s) - Len(sub)) : SubSeq(s, i + 1, i + Len(sub)) = sub

\* Lexicographic order of text by code point (the order groupby sorts keys in).
RECURSIVE StrLess(_, _)
StrLess(a, b) ==
    IF b = <<>> THEN FALSE
    ELSE IF a = <<>> THEN TRUE
    ELSE IF Head(a) = Head(b) THEN StrLess(Tail(a), Tail(b))
    ELSE Code(Head(a)) < Code(Head(b))

\* Decimal value of a sequence of digit characters ("" is 0).
RECURSIVE DigitsValue(_)
DigitsValue(s) ==
    IF s = <<>> THEN 0 ELSE 10 * DigitsValue(SubSeq(s, 1, Len(s) - 1)) + DigitVal(s[Len(s)])

RECURSIVE Pow10(_)
Pow10(k) == IF k = 0 THEN 1 ELSE 10 * Pow10(k - 1)

\* The decimal digits of n >= 0, left-padded with zeros to `width` characters.
RECURSIVE ZeroPad(_, _)
ZeroPad(n, width) ==
    IF width = 0 THEN <<>> ELSE ZeroPad(n \div 10, width - 1) \o <<Digits[(n % 10) + 1]>>

-----------------------------------------------------------------------------
(* Numbers and cells *)

Abs(x) == IF x < 0 THEN -x ELSE x

RECURSIVE Gcd(_, _)
Gcd(a, b) == IF b = 0 THEN a ELSE Gcd(b, a % b)

\* The rational n/d (d # 0) in lowest terms with a positive denominator.
Rat(n, d) ==
    LET g == Gcd(Abs(n), Abs(d))
        s == IF d < 0 THEN -1 ELSE 1
    IN  [t |-> "num", n |-> (s * n) \div g, d |-> (s * d) \div g]

Int2Num(k) == Rat(k, 1)

NaN == [t |-> "nan"]                     \* numpy.nan: the missing value
NaT == [t |-> "nat"]                     \* pandas.NaT: the missing datetime
Inf(sign) == [t |-> "inf", sign |-> sign] \* numpy.inf / -numpy.inf
Str(s) == [t |-> "str", s |-> s]
Date(y, m, d) == [t |-> "date", y |-> y, m |-> m, day |-> d]

\* pandas.isna
IsNA(c) == c.t \in {"nan", "nat"}

FAdd(a, b) == Rat(a.n * b.d + b.n * a.d, a.d * b.d)

\* Float division: x/0 is inf (signed), 0/0 is NaN, and NaN propagates.
FDiv(a, b) ==
    IF a.t # "num" \/ b.t # "num" THEN NaN
    ELSE IF b.n = 0
    THEN IF a.n = 0 THEN NaN ELSE Inf(IF a.n > 0 THEN 1 ELSE -1)
    ELSE Rat(a.n * b.d, a.d * b.n)

\* x - k and x * k for a float x and an integer k: NaN and inf propagate.
FSubInt(x, k) == IF x.t = "num" THEN Rat(x.n - k * x.d, x.d) ELSE x

FMulInt(x, k) == IF x.t = "num" THEN Rat(x.n * k, x.d) ELSE x

-----------------------------------------------------------------------------
(* Tables *)

\* A DataFrame: column labels in order (labels may repeat) and rows of cells.
DataFrame(cols, rows) == [cols |-> cols, rows |-> rows]

c_date == <<"d", "a", "t", "e">>
c_registrations == <<"r", "e", "g", "i", "s", "t", "r", "a", "t", "i", "o", "n", "s">>
c_category == <<"c", "a", "t", "e", "g", "o", "r", "y">>
c_manufacturer == <<"m", "a", "n", "u", "f", "a", "c", "t", "u", "r", "e", "r">>

\* The positions of the columns labelled `name`.
ColIdx(df, name) == {i \in 1..Len(df.cols) : df.cols[i] = name}

\* `name in df.columns`
HasCol(df, name) == ColIdx(df, name) # {}

\* df[name] is a Series only when exactly one column carries the label.
IsSeries(df, name) == Cardinality(ColIdx(df, name)) = 1

TheCol(df, name) == CHOOSE i \in ColIdx(df, name) : TRUE

\* The cells of column i, top to bottom.
Column(df, i) == [r \in 1..Len(df.rows) |-> df.rows[r][i]]

RECURSIVE TupleLess(_, _)
TupleLess(a, b) ==
    IF a = <<>> \/ b = <<>> THEN FALSE
    ELSE IF Head(a) = Head(b) THEN TupleLess(Tail(a), Tail(b))
    ELSE Head(a) < Head(b)

-----------------------------------------------------------------------------
(* calculate_growth_metrics *)

\* .dt.year, .dt.quarter and .dt.to_period('M') of a timestamp
dt_year(d) == d.y
dt_quarter(d) == ((d.m - 1) \div 3) + 1
dt_year_month(d) == <<d.y, d.m>>

\* The period columns each groupby uses.
monthly_period(d) == dt_year_month(d)
yearly_period(d) == <<dt_year(d)>>
quarterly_period(d) == <<dt_year(d), dt_quarter(d)>>

period_key(freq, d) ==
    CASE freq = "monthly" -> monthly_period(d)
      [] freq = "yearly" -> yearly_period(d)
      [] freq = "quarterly" -> quarterly_period(d)

\* Mutant of series_sum: sum(skipna=False), a missing value makes the sum missing.
RECURSIVE series_sum_keep_na(_)
series_sum_keep_na(cells) ==
    IF cells = <<>> THEN Int2Num(0)
    ELSE IF IsNA(Head(cells)) \/ IsNA(series_sum_keep_na(Tail(cells))) THEN NaN
    ELSE FAdd(Head(cells), series_sum_keep_na(Tail(cells)))

\* Series.sum(): missing values are skipped, and the sum of nothing is 0.
RECURSIVE series_sum(_)
series_sum(cells) ==
    IF cells = <<>> THEN Int2Num(0)
    ELSE IF IsNA(Head(cells)) THEN series_sum(Tail(cells))
    ELSE FAdd(Head(cells), series_sum(Tail(cells)))

\* groupby keeps a row only when none of its keys is missing (dropna=True).
groupby_keeps(date, group) == date.t = "date" /\ ~IsNA(group)

\* groupby sorts the keys: by period, then by group label.
GroupKeyLess(a, b) ==
    \/ TupleLess(a[1], b[1])
    \/ a[1] = b[1] /\ StrLess(a[2].s, b[2].s)

RECURSIVE SortedKeys(_)
SortedKeys(S) ==
    IF S = {} THEN <<>>
    ELSE LET m == CHOOSE x \in S : \A y \in S \ {x} : GroupKeyLess(x, y)
         IN  <<m>> \o SortedKeys(S \ {m})

\* df.groupby([<period columns>, group_col])[value_col].sum().reset_index():
\* one row per observed (period, group) pair, in sorted key order.
groupby_sum(df, group_col, freq) ==
    LET di == TheCol(df, c_date)
        gi == TheCol(df, group_col)
        vi == TheCol(df, c_registrations)
        kept == {r \in 1..Len(df.rows) : groupby_keeps(df.rows[r][di], df.rows[r][gi])}
        keyOf(r) == <<period_key(freq, df.rows[r][di]), df.rows[r][gi]>>
        keys == SortedKeys({keyOf(r) : r \in kept})
        members(k) == SelectSeq([r \in 1..Len(df.rows) |-> r],
                                LAMBDA r : r \in kept /\ keyOf(r) = k)
        cell(k) == [j \in 1..Len(members(k)) |-> df.rows[members(k)[j]][vi]]
    IN  [i \in 1..Len(keys) |->
            [period |-> keys[i][1], group |-> keys[i][2],
             registrations |-> series_sum(cell(keys[i]))]]

\* Mutant of monthly_growth_key: pct_change over the whole table, no groupby.
monthly_growth_key_ungrouped(row) == <<>>

\* The keys of the groupby that pct_change runs within.
monthly_growth_key(row) == <<row.group>>
yearly_growth_key(row) == <<row.group>>
quarterly_growth_key(row) == <<row.group, row.period[1]>>

growth_key(freq, row) ==
    CASE freq = "monthly" -> monthly_growth_key(row)
      [] freq = "yearly" -> yearly_growth_key(row)
      [] freq = "quarterly" -> quarterly_growth_key(row)

MaxOf(S) == CHOOSE x \in S : \A y \in S : y <= x

\* table.groupby(<growth key>)[value_col].pct_change() * 100: each row against the
\* previous row of its own group, filled / shifted - 1; a group's first row
\* has nothing to shift in and is NaN.
pct_change_100(table, freq) ==
    [i \in 1..Len(table) |->
        LET prev == {j \in 1..(i - 1) : growth_key(freq, table[j]) = growth_key(freq, table[i])}
        IN  IF prev = {} THEN NaN
            ELSE FMulInt(FSubInt(FDiv(table[i].registrations,
                                      table[MaxOf(prev)].registrations), 1), 100)]

with_growth(table, freq) ==
    LET g == pct_change_100(table, freq)
    IN  [i \in 1..Len(table) |->
            [period |-> table[i].period, group |-> table[i].group,
             registrations |-> table[i].registrations, growth |-> g[i]]]

\* A column is datetime64 after a successful pd.to_datetime.
IsDatetimeColumn(df, i) == \A r \in 1..Len(df.rows) : df.rows[r][i].t \in {"date", "nat"}

\* The exception calculate_growth_metrics raises on df, or "" when it returns.
growth_error(df, group_col) ==
    IF ~HasCol(df, c_date) THEN "KeyError"
    ELSE IF ~IsSeries(df, c_date) \/ ~IsDatetimeColumn(df, TheCol(df, c_date))
         THEN "AttributeError"
    ELSE IF ~HasCol(df, group_col) \/ ~HasCol(df, c_registrations) THEN "KeyError"
    ELSE IF ~IsSeries(df, group_col) \/ ~IsSeries(df, c_registrations) THEN "ValueError"
    ELSE ""

calculate_growth_metrics(df, group_col) ==
    IF growth_error(df, group_col) # ""
    THEN [raised |-> growth_error(df, group_col)]
    ELSE [raised |-> "",
          monthly |-> with_growth(groupby_sum(df, group_col, "monthly"), "monthly"),
          yearly |-> with_growth(groupby_sum(df, group_col, "yearly"), "yearly"),
          quarterly |-> with_growth(groupby_sum(df, group_col, "quarterly"), "quarterly")]

c_year == <<"y", "e", "a", "r">>
c_quarter == <<"q", "u", "a", "r", "t", "e", "r">>
c_month == <<"m", "o", "n", "t", "h">>
c_year_month == <<"y", "e", "a", "r", "_", "m", "o", "n", "t", "h">>

\* The period cells lines 101-104 derive from the date of a row.
period_cells(df, row) ==
    LET d == row[TheCol(df, c_date)]
    IN  IF d.t = "date"
        THEN <<Int2Num(dt_year(d)), Int2Num(dt_quarter(d)), Int2Num(d.m),
               Date(d.y, d.m, 1)>>
        ELSE <<NaN, NaN, NaN, NaT>>

\* The caller's frame when the period columns are assigned to it and not to
\* a copy.
frame_after_growth_metrics_without_copy(df, group_col) ==
    IF ~IsSeries(df, c_date) \/ ~IsDatetimeColumn(df, TheCol(df, c_date)) THEN df
    ELSE DataFrame(df.cols \o <<c_year, c_quarter, c_month, c_year_month>>,
                   [r \in 1..Len(df.rows) |-> df.rows[r] \o period_cells(df, df.rows[r])])

\* The caller's frame after calculate_growth_metrics(df, group_col=group_col)
\* returned or raised: line 98 takes a copy, and lines 101-104 assign the
\* period columns to the copy.
frame_after_growth_metrics(df, group_col) ==
    df

-----------------------------------------------------------------------------
(* SpecGrowth: calculate_growth_metrics applied to cleaned tables *)

s_2W == <<"2", "W">>
s_3W == <<"3", "W">>
s_4W == <<"4", "W">>
s_HeroMotoCorp == <<"H", "e", "r", "o", " ", "M", "o", "t", "o", "C", "o", "r", "p">>
s_BajajAuto == <<"B", "a", "j", "a", "j", " ", "A", "u", "t", "o">>

MaxRows == 3

\* Dates in Q4 2022, Q1 2023 (two months) and Q2 2023.
GDates == {Date(2022, 12, 15), Date(2023, 1, 15), Date(2023, 2, 20), Date(2023, 4, 5)}

GRegs == {NaN, Int2Num(0), Int2Num(1), Int2Num(3)}

GCols == <<c_date, c_category, c_manufacturer, c_registrations>>

\* The rows a cleaned table is made of: 2W / Hero MotoCorp records of every
\* date and count, 3W / Bajaj Auto records of every date, and records with a
\* missing date, a missing category, a missing manufacturer.
GRowSet ==
    {<<d, Str(s_2W), Str(s_HeroMotoCorp), v>> : d \in GDates, v \in GRegs}
    \cup {<<d, Str(s_3W), Str(s_BajajAuto), Int2Num(3)>> : d \in GDates}
    \cup {<<NaT, Str(s_2W), Str(s_HeroMotoCorp), Int2Num(1)>>,
          <<Date(2023, 1, 15), NaN, Str(s_HeroMotoCorp), Int2Num(1)>>,
          <<Date(2023, 1, 15), Str(s_3W), NaN, Int2Num(1)>>}

RECURSIVE SetToSeq(_)
SetToSeq(S) ==
    IF S = {} THEN <<>> ELSE LET x == CHOOSE x \in S : TRUE IN <<x>> \o SetToSeq(S \ {x})

GRows == SetToSeq(GRowSet)

\* The index sequences of length k over lo..n that never decrease: one table
\* per multiset of rows (the result of a groupby does not depend on row order).
RECURSIVE NonDecreasing(_, _, _)
NonDecreasing(k, lo, n) ==
    IF k = 0 THEN {<<>>}
    ELSE UNION {{<<i>> \o t : t \in NonDecreasing(k - 1, i, n)} : i \in lo..n}

GTables ==
    {DataFrame(GCols, [j \in 1..Len(ix) |-> GRows[ix[j]]]) :
        ix \in UNION {NonDecreasing(k, 1, Len(GRows)) : k \in 1..MaxRows}}

NotCalled == [raised |-> "not called"]

CleanIdle ==
    /\ files = <<>>
    /\ loaded = NotCalled
    /\ cleaned = NotCalled
    /\ metrics = NotCalled
    /\ cpc = "idle"

PipelineIdle ==
    /\ db = <<>>
    /\ outdir = {}
    /\ run = 0
    /\ last = NotCalled
    /\ dbfile = FALSE
    /\ procdir = FALSE
    /\ dash = NotCalled

GrowthIdle ==
    /\ gdf = DataFrame(<<>>, <<>>)
    /\ gcol = <<>>
    /\ gout = NotCalled

InitGrowth ==
    /\ gdf \in GTables
    /\ gcol = <<>>
    /\ gout = NotCalled
    /\ CleanIdle
    /\ PipelineIdle

\* calculate_growth_metrics(df, group_col='category')
GrowthByCategory ==
    /\ gcol' = c_category
    /\ gout' = calculate_growth_metrics(gdf, c_category)
    /\ UNCHANGED <<gdf, files, loaded, cleaned, metrics, cpc, db, outdir, run, last, dbfile, procdir, dash>>

\* calculate_growth_metrics(df, group_col='manufacturer')
GrowthByManufacturer ==
    /\ gcol' = c_manufacturer
    /\ gout' = calculate_growth_metrics(gdf, c_manufacturer)
    /\ UNCHANGED <<gdf, files, loaded, cleaned, metrics, cpc, db, outdir, run, last, dbfile, procdir, dash>>

NextGrowth == GrowthByCategory \/ GrowthByManufacturer

SpecGrowth == InitGrowth /\ [][NextGrowth]_vars

-----------------------------------------------------------------------------
(* Claims about calculate_growth_metrics (SpecGrowth) *)

Returned == gout.raised = ""

FSub(a, b) == Rat(a.n * b.d - b.n * a.d, a.d * b.d)

\* (cur - prev) / prev * 100
GrowthFormula(cur, prev) == FMulInt(FDiv(FSub(cur, prev), prev), 100)

\* The rows of the group of row i that lie in an earlier period.
EarlierRows(table, i) ==
    {j \in 1..Len(table) :
        table[j].group = table[i].group /\ TupleLess(table[j].period, table[i].period)}

\* Among them, the row of the latest period: the immediately preceding period
\* present for the group.
PrecedingRow(table, i) ==
    CHOOSE j \in EarlierRows(table, i) :
        \A k \in EarlierRows(table, i) : ~TupleLess(table[j].period, table[k].period)

GroupRows(table, g) == {i \in 1..Len(table) : table[i].group = g}

AllNonZero(table, g) == \A i \in GroupRows(table, g) : table[i].registrations.n # 0

\* The date, group and count cells of the input rows.
InDate(r) == gdf.rows[r][TheCol(gdf, c_date)]
InGroup(r) == gdf.rows[r][TheCol(gdf, gcol)]
InCount(r) == gdf.rows[r][TheCol(gdf, c_registrations)]

ChainedGrowth(table) ==
    \A i \in 1..Len(table) :
        (Cardinality(GroupRows(table, table[i].group)) >= 2
            /\ AllNonZero(table, table[i].group))
        => IF EarlierRows(table, i) = {}
           THEN table[i].growth = NaN
           ELSE table[i].growth =
                    GrowthFormula(table[i].registrations,
                                  table[PrecedingRow(table, i)].registrations)

\* C1: in the monthly and yearly tables, for every group with at least two
\* periods and only non-zero totals, the growth of the group's first period is
\* absent and the growth of every later period is
\* (total[i] - total[i-1]) / total[i-1] * 100 against the immediately
\* preceding period present for that same group.
C1_GrowthChain == Returned => ChainedGrowth(gout.monthly) /\ ChainedGrowth(gout.yearly)

\* C1 witness: a monthly table in which a later period of a group with
\* non-zero totals directly follows a row of another group, and a yearly
\* table in which a group has a second year.
C1_Witness ==
    /\ Returned
    /\ \E i \in 2..Len(gout.monthly) :
        /\ AllNonZero(gout.monthly, gout.monthly[i].group)
        /\ EarlierRows(gout.monthly, i) # {}
        /\ gout.monthly[i - 1].group # gout.monthly[i].group
        /\ gout.monthly[i - 1].registrations # gout.monthly[PrecedingRow(gout.monthly, i)].registrations
        /\ gout.monthly[i].growth.t = "num"
    /\ \E i \in 1..Len(gout.yearly) :
        /\ AllNonZero(gout.yearly, gout.yearly[i].group)
        /\ EarlierRows(gout.yearly, i) # {}
        /\ gout.yearly[i].growth.t = "num"

\* C2 (as claimed): in the quarterly table every quarter of a group is compared
\* with the immediately preceding quarter present for the group in
\* (year, quarter) order, across year boundaries too; only the group's first
\* quarter has absent growth.
C2_QuarterAcrossYears ==
    Returned =>
        \A i \in 1..Len(gout.quarterly) :
            IF EarlierRows(gout.quarterly, i) = {}
            THEN gout.quarterly[i].growth = NaN
            ELSE gout.quarterly[PrecedingRow(gout.quarterly, i)].registrations.n # 0
                 => gout.quarterly[i].growth =
                        GrowthFormula(gout.quarterly[i].registrations,
                            gout.quarterly[PrecedingRow(gout.quarterly, i)].registrations)

ZeroPreviousAbsent(table) ==
    \A i \in 1..Len(table) :
        (EarlierRows(table, i) # {} /\ table[PrecedingRow(table, i)].registrations.n = 0)
        => table[i].growth = NaN

\* C3 (as claimed): in each of the three tables, when the preceding period's
\* total of the same group is 0 the growth is absent, never infinite.
C3_ZeroPreviousAbsent ==
    Returned =>
        /\ ZeroPreviousAbsent(gout.monthly)
        /\ ZeroPreviousAbsent(gout.yearly)
        /\ ZeroPreviousAbsent(gout.quarterly)

\* The sum of the present counts of the input rows in R.
RECURSIVE SumPresent(_)
SumPresent(R) ==
    IF R = {} THEN Int2Num(0)
    ELSE LET r == CHOOSE x \in R : TRUE
         IN  IF IsNA(InCount(r)) THEN SumPresent(R \ {r})
             ELSE FAdd(SumPresent(R \ {r}), InCount(r))

\* The input rows of a (period, group) cell.
CellRows(freq, p, g) ==
    {r \in 1..Len(gdf.rows) : InDate(r).t = "date" /\ period_key(freq, InDate(r)) = p /\ InGroup(r) = g}

OneRowPerCell(table, freq) ==
    /\ \A r \in 1..Len(gdf.rows) :
        (InDate(r).t = "date" /\ ~IsNA(InGroup(r)))
        => \E i \in 1..Len(table) :
            table[i].period = period_key(freq, InDate(r)) /\ table[i].group = InGroup(r)
    /\ \A i, j \in 1..Len(table) :
        (table[i].period = table[j].period /\ table[i].group = table[j].group) => i = j
    /\ \A i \in 1..Len(table) :
        /\ CellRows(freq, table[i].period, table[i].group) # {}
        /\ table[i].registrations = SumPresent(CellRows(freq, table[i].period, table[i].group))

\* C7: each returned table has exactly one row per (period, group) pair that
\* occurs in the input, and its total is the sum of the present registrations
\* of the input records of that period and group; records with a missing date
\* or a missing group value are in no cell.
C7_OneRowPerCell ==
    Returned =>
        /\ OneRowPerCell(gout.monthly, "monthly")
        /\ OneRowPerCell(gout.yearly, "yearly")
        /\ OneRowPerCell(gout.quarterly, "quarterly")

\* C7 witness: a cell made of two records with present counts and one with a
\* missing count, beside a record with a missing date or group.
C7_Witness ==
    /\ Returned
    /\ \E r \in 1..Len(gdf.rows) : IsNA(InDate(r)) \/ IsNA(InGroup(r))
    /\ \E i \in 1..Len(gout.monthly) :
        LET R == CellRows("monthly", gout.monthly[i].period, gout.monthly[i].group)
        IN  /\ Cardinality(R) >= 2
            /\ \E r \in R : IsNA(InCount(r))
            /\ \E r \in R : ~IsNA(InCount(r)) /\ InCount(r).n > 0

\* The input without the records whose registrations value is missing.
WithoutMissingCounts ==
    DataFrame(gdf.cols,
              SelectSeq(gdf.rows, LAMBDA row : ~IsNA(row[TheCol(gdf, c_registrations)])))

\* C8 (as claimed): the returned tables equal the tables computed from the
\* input with every missing-registrations record removed.
C8_MissingExcluded ==
    Returned => gout = calculate_growth_metrics(WithoutMissingCounts, gcol)

-----------------------------------------------------------------------------
(* load_data *)

s_csv == <<".", "c", "s", "v">>

\* str.endswith
endswith(s, suffix) ==
    Len(s) >= Len(suffix) /\ SubSeq(s, Len(s) - Len(suffix) + 1, Len(s)) = suffix

None == [none |-> TRUE]

\* The union of the column labels of the frames, in order of first appearance.
RECURSIVE concat_columns(_)
concat_columns(dfs) ==
    IF dfs = <<>> THEN <<>>
    ELSE LET before == concat_columns(SubSeq(dfs, 1, Len(dfs) - 1))
         IN  before \o SelectSeq(dfs[Len(dfs)].cols, LAMBDA c : c \notin Range(before))

\* The row of df laid out on the labels `cols`; a label df lacks is missing.
reindex_row(df, row, cols) ==
    [k \in 1..Len(cols) |->
        IF HasCol(df, cols[k]) THEN row[TheCol(df, cols[k])] ELSE NaN]

RECURSIVE concat_rows(_, _)
concat_rows(dfs, cols) ==
    IF dfs = <<>> THEN <<>>
    ELSE [r \in 1..Len(Head(dfs).rows) |-> reindex_row(Head(dfs), Head(dfs).rows[r], cols)]
         \o concat_rows(Tail(dfs), cols)

\* pd.concat(dfs, ignore_index=True)
concat(dfs) == DataFrame(concat_columns(dfs), concat_rows(dfs, concat_columns(dfs)))

\* pd.read_csv of a readable file: its header and its rows; a cell is the
\* text of the field, or NaN for an empty field.
read_csv(f) == DataFrame(f.cols, f.rows)

\* load_data in which a file that cannot be read ends the run.
load_data_abort_on_unreadable(dir) ==
    LET all_files == SelectSeq(dir, LAMBDA f : endswith(f.name, s_csv))
        dfs == [i \in 1..Len(all_files) |-> read_csv(all_files[i])]
    IN  IF all_files = <<>> THEN None
        ELSE IF \E i \in 1..Len(all_files) : ~all_files[i].readable THEN None
        ELSE concat(dfs)

\* load_data(data_dir): the entries of the directory are records
\* [name, readable, cols, rows] in os.listdir order.
load_data(dir) ==
    LET all_files == SelectSeq(dir, LAMBDA f : endswith(f.name, s_csv))
        ok == SelectSeq(all_files, LAMBDA f : f.readable)
        dfs == [i \in 1..Len(ok) |-> read_csv(ok[i])]
    IN  IF all_files = <<>> THEN None
        ELSE IF dfs = <<>> THEN None
        ELSE concat(dfs)

-----------------------------------------------------------------------------
(* clean_data *)

w_date == <<"d", "a", "t", "e">>
w_registration == <<"r", "e", "g", "i", "s", "t", "r", "a", "t", "i", "o", "n">>
w_value == <<"v", "a", "l", "u", "e">>
w_number == <<"n", "u", "m", "b", "e", "r">>
w_count == <<"c", "o", "u", "n", "t">>
w_sales == <<"s", "a", "l", "e", "s">>

s_TWO_WHEELER == <<"T", "W", "O", " ", "W", "H", "E", "E", "L", "E", "R">>
s_THREE_WHEELER == <<"T", "H", "R", "E", "E", " ", "W", "H", "E", "E", "L", "E", "R">>
s_FOUR_WHEELER == <<"F", "O", "U", "R", " ", "W", "H", "E", "E", "L", "E", "R">>
s_2_WHEELER == <<"2", " ", "W", "H", "E", "E", "L", "E", "R">>
s_3_WHEELER == <<"3", " ", "W", "H", "E", "E", "L", "E", "R">>
s_4_WHEELER == <<"4", " ", "W", "H", "E", "E", "L", "E", "R">>

s_Hero == <<"H", "e", "r", "o">>
s_Bajaj == <<"B", "a", "j", "a", "j">>
s_Tata == <<"T", "a", "t", "a">>
s_TataMotors == <<"T", "a", "t", "a", " ", "M", "o", "t", "o", "r", "s">>
s_Mahindra == <<"M", "a", "h", "i", "n", "d", "r", "a">>
s_MahindraAndMahindra == <<"M", "a", "h", "i", "n", "d", "r", "a", " ", "A", "n", "d", " ", "M", "a", "h", "i", "n", "d", "r", "a">>
s_MahindraMahindra == <<"M", "a", "h", "i", "n", "d", "r", "a", " ", "&", " ", "M", "a", "h", "i", "n", "d", "r", "a">>

s_nan == <<"n", "a", "n">>
s_NaT == <<"N", "a", "T">>

\* df with the cells of column i replaced by `cells`.
set_column(df, i, cells) ==
    DataFrame(df.cols,
        [r \in 1..Len(df.rows) |->
            [k \in 1..Len(df.cols) |-> IF k = i THEN cells[r] ELSE df.rows[r][k]]])

\* dropna(how='all'): a row is dropped when every cell is missing.
dropna_all(df) ==
    DataFrame(df.cols,
        SelectSeq(df.rows, LAMBDA row : \E k \in 1..Len(row) : ~IsNA(row[k])))

\* col.strip().lower().replace(' ', '_')
standardize_column_name(col) == str_replace(str_lower(str_strip(col)), " ", "_")

rename_columns(df) ==
    DataFrame([k \in 1..Len(df.cols) |-> standardize_column_name(df.cols[k])], df.rows)

IsLeap(y) == (y % 4 = 0 /\ y % 100 # 0) \/ y % 400 = 0

DaysInMonth(y, m) ==
    IF m = 2 THEN (IF IsLeap(y) THEN 29 ELSE 28)
    ELSE IF m \in {4, 6, 9, 11} THEN 30 ELSE 31

\* pd.to_datetime(text, errors='coerce') on ISO text YYYY-MM-DD; any other
\* text is taken as unparseable.
parse_date(s) ==
    IF /\ Len(s) = 10
       /\ s[5] = "-" /\ s[8] = "-"
       /\ \A i \in {1, 2, 3, 4, 6, 7, 9, 10} : IsDigit(s[i])
    THEN LET y == DigitsValue(SubSeq(s, 1, 4))
             m == DigitsValue(SubSeq(s, 6, 7))
             d == DigitsValue(SubSeq(s, 9, 10))
         IN  IF m \in 1..12 /\ d \in 1..DaysInMonth(y, m) THEN Date(y, m, d) ELSE NaT
    ELSE NaT

\* pd.to_datetime(..., errors='coerce') of one cell
to_datetime(c) ==
    CASE c.t = "str" -> parse_date(c.s)
      [] c.t = "date" -> c
      [] OTHER -> NaT

\* The columns of `df` from position k on whose label contains 'date', each
\* converted when df[col] is a Series; when the label is repeated df[col] is a
\* DataFrame, pd.to_datetime raises and the bare except leaves it as it is.
RECURSIVE convert_date_columns(_, _)
convert_date_columns(df, k) ==
    IF k > Len(df.cols) THEN df
    ELSE IF Contains(df.cols[k], w_date) /\ IsSeries(df, df.cols[k])
    THEN convert_date_columns(
             set_column(df, k, [r \in 1..Len(df.rows) |-> to_datetime(df.rows[r][k])]), k + 1)
    ELSE convert_date_columns(df, k + 1)

\* any(word in col.lower() for word in [...])
is_numeric_name(col) ==
    \E w \in {w_registration, w_value, w_number, w_count, w_sales} :
        Contains(str_lower(col), w)

\* .astype(str) of one cell
astype_str(c) ==
    CASE c.t = "str" -> c.s
      [] c.t = "nan" -> s_nan
      [] c.t = "nat" -> s_NaT
      [] c.t = "date" -> ZeroPad(c.y, 4) \o <<"-">> \o ZeroPad(c.m, 2) \o <<"-">> \o ZeroPad(c.day, 2)

\* .str.replace(r'[^\d.]', '', regex=True): only digits and '.' remain.
strip_non_numeric(s) == SelectSeq(s, LAMBDA ch : IsDigit(ch) \/ ch = ".")

\* pd.to_numeric(text, errors='coerce') of text made of digits and dots
to_numeric(s) ==
    LET dots == {i \in 1..Len(s) : s[i] = "."}
        digits == SelectSeq(s, IsDigit)
    IN  IF digits = <<>> \/ Cardinality(dots) > 1 THEN NaN
        ELSE IF dots = {} THEN Rat(DigitsValue(digits), 1)
        ELSE LET dot == CHOOSE i \in dots : TRUE
             IN  Rat(DigitsValue(digits), Pow10(Len(s) - dot))

\* The columns from position k on whose label matches the numeric vocabulary,
\* each stripped and converted when df[col] is a Series (a repeated label
\* raises inside the try and the column stays as it is).
RECURSIVE convert_numeric_columns(_, _)
convert_numeric_columns(df, k) ==
    IF k > Len(df.cols) THEN df
    ELSE IF is_numeric_name(df.cols[k]) /\ IsSeries(df, df.cols[k])
    THEN convert_numeric_columns(
             set_column(df, k,
                 [r \in 1..Len(df.rows) |->
                     to_numeric(strip_non_numeric(astype_str(df.rows[r][k])))]), k + 1)
    ELSE convert_numeric_columns(df, k + 1)

\* df[col].str raises AttributeError when df[col] is a DataFrame (repeated
\* label) or a column that was read without any text in it (float64, not
\* object dtype; dropna removes no row that holds text).
str_accessor_fails(df, col) ==
    \/ ~IsSeries(df, col)
    \/ \A r \in 1..Len(df.rows) : df.rows[r][TheCol(df, col)].t # "str"

\* Mutant of category_aliases: the '2 WHEELER' entry is missing.
category_aliases_without_2_wheeler ==
    {<<s_TWO_WHEELER, s_2W>>, <<s_THREE_WHEELER, s_3W>>, <<s_FOUR_WHEELER, s_4W>>,
     <<s_3_WHEELER, s_3W>>, <<s_4_WHEELER, s_4W>>}

category_aliases ==
    {<<s_TWO_WHEELER, s_2W>>, <<s_THREE_WHEELER, s_3W>>, <<s_FOUR_WHEELER, s_4W>>,
     <<s_2_WHEELER, s_2W>>, <<s_3_WHEELER, s_3W>>, <<s_4_WHEELER, s_4W>>}

manufacturer_aliases ==
    {<<s_Hero, s_HeroMotoCorp>>, <<s_Bajaj, s_BajajAuto>>, <<s_Tata, s_TataMotors>>,
     <<s_Mahindra, s_MahindraMahindra>>, <<s_MahindraAndMahindra, s_MahindraMahindra>>}

\* Series.replace(mapping) of one cell: a value equal to a key becomes its target.
replace_value(c, mapping) ==
    IF c.t = "str" /\ \E p \in mapping : p[1] = c.s
    THEN Str((CHOOSE p \in mapping : p[1] = c.s)[2])
    ELSE c

\* .str.upper() / .str.title() of one cell: a cell that is not text gives NaN.
series_str_lower(c) == IF c.t = "str" THEN Str(str_lower(c.s)) ELSE NaN
series_str_upper(c) == IF c.t = "str" THEN Str(str_upper(c.s)) ELSE NaN
series_str_title(c) == IF c.t = "str" THEN Str(str_title(c.s)) ELSE NaN

normalize_category(c) == replace_value(series_str_upper(c), category_aliases)

normalize_manufacturer(c) == replace_value(series_str_title(c), manufacturer_aliases)

standardize_category(df) ==
    LET i == TheCol(df, c_category)
    IN  set_column(df, i, [r \in 1..Len(df.rows) |-> normalize_category(df.rows[r][i])])

standardize_manufacturer(df) ==
    LET i == TheCol(df, c_manufacturer)
    IN  set_column(df, i, [r \in 1..Len(df.rows) |-> normalize_manufacturer(df.rows[r][i])])

\* Lines 80-91 on the frame with its category column standardized.
clean_manufacturer(df) ==
    IF ~HasCol(df, c_manufacturer) THEN [raised |-> "", df |-> df]
    ELSE IF str_accessor_fails(df, c_manufacturer) THEN [raised |-> "AttributeError"]
    ELSE [raised |-> "", df |-> standardize_manufacturer(df)]

\* Lines 68-91 on the frame with its date and numeric columns converted.
clean_category(df) ==
    IF ~HasCol(df, c_category) THEN clean_manufacturer(df)
    ELSE IF str_accessor_fails(df, c_category) THEN [raised |-> "AttributeError"]
    ELSE clean_manufacturer(standardize_category(df))

\* clean_data(df): [raised |-> "", df |-> df_clean], or the exception raised.
clean_data(df) ==
    clean_category(
        convert_numeric_columns(convert_date_columns(rename_columns(dropna_all(df)), 1), 1))

-----------------------------------------------------------------------------
(* SpecClean: load_data, clean_data and calculate_growth_metrics over a
   directory of CSV files *)

h_date == c_date
h_Date == <<"D", "a", "t", "e">>
h_Category == <<"C", "a", "t", "e", "g", "o", "r", "y">>
h_Manufacturer == <<"M", "a", "n", "u", "f", "a", "c", "t", "u", "r", "e", "r">>
h_Registrations == <<"R", "e", "g", "i", "s", "t", "r", "a", "t", "i", "o", "n", "s">>
h_Registration_Date == <<"R", "e", "g", "i", "s", "t", "r", "a", "t", "i", "o", "n", " ", "D", "a", "t", "e">>
h_registration_date == <<"r", "e", "g", "i", "s", "t", "r", "a", "t", "i", "o", "n", "_", "d", "a", "t", "e">>
h_Count == <<"C", "o", "u", "n", "t">>
h_count == <<"c", "o", "u", "n", "t">>

HCanonical == <<c_date, c_category, c_manufacturer, c_registrations>>
HCapitalized == <<h_Date, h_Category, h_Manufacturer, h_Registrations>>

\* Field texts of the source files
t_2023_01_15 == <<"2", "0", "2", "3", "-", "0", "1", "-", "1", "5">>
t_2023_01_20 == <<"2", "0", "2", "3", "-", "0", "1", "-", "2", "0">>
t_2023_01_25 == <<"2", "0", "2", "3", "-", "0", "1", "-", "2", "5">>
t_2023_02_20 == <<"2", "0", "2", "3", "-", "0", "2", "-", "2", "0">>
t_2023_02_30 == <<"2", "0", "2", "3", "-", "0", "2", "-", "3", "0">>
t_2022_12_05 == <<"2", "0", "2", "2", "-", "1", "2", "-", "0", "5">>
t_tbd == <<"t", "b", "d">>
t_two_wheeler_lower == <<"2", " ", "w", "h", "e", "e", "l", "e", "r">>
t_Two_Wheeler == <<"T", "w", "o", " ", "W", "h", "e", "e", "l", "e", "r">>
t_bus == <<"b", "u", "s">>
t_hero == <<"h", "e", "r", "o">>
t_HERO_MOTOCORP == <<"H", "E", "R", "O", " ", "M", "O", "T", "O", "C", "O", "R", "P">>
t_mahindra_and_mahindra == <<"m", "a", "h", "i", "n", "d", "r", "a", " ", "a", "n", "d", " ", "m", "a", "h", "i", "n", "d", "r", "a">>
t_100 == <<"1", "0", "0">>
t_1_000 == <<"1", ",", "0", "0", "0">>
t_50 == <<"5", "0">>
t_minus_5 == <<"-", "5">>
t_abc == <<"a", "b", "c">>
t_dollar_50 == <<"$", "5", "0">>
t_1_5 == <<"1", ".", "5">>
t_1_2_3 == <<"1", ".", "2", ".", "3">>
t_7 == <<"7">>

x_csv == <<".", "c", "s", "v">>
x_txt == <<".", "t", "x", "t">>

CsvFile(cols, rows) == [ext |-> x_csv, readable |-> TRUE, cols |-> cols, rows |-> rows]

Row(a, b, c, d) == <<Str(a), Str(b), Str(c), Str(d)>>

\* Single records under the canonical header: aliases of one category in one
\* month, later and earlier months, unparseable and impossible dates, counts
\* with separators, signs, currency symbols and text, missing fields.
CRowJan2W == Row(t_2023_01_15, s_2W, s_Hero, t_100)
CRowJanTwoWheeler == Row(t_2023_01_20, s_TWO_WHEELER, s_HeroMotoCorp, t_1_000)
CRowJan2Wheeler == Row(t_2023_01_25, t_two_wheeler_lower, t_hero, t_50)

CRows ==
    {CRowJan2W, CRowJanTwoWheeler, CRowJan2Wheeler,
     Row(t_2023_02_20, t_Two_Wheeler, t_HERO_MOTOCORP, t_minus_5),
     Row(t_tbd, s_3W, s_Bajaj, t_abc),
     Row(t_2023_02_30, t_bus, s_MahindraMahindra, t_dollar_50),
     <<NaN, NaN, NaN, NaN>>,
     <<Str(t_2023_02_20), NaN, NaN, Str(t_1_5)>>,
     <<Str(t_2022_12_05), Str(s_THREE_WHEELER), Str(s_Tata), NaN>>,
     Row(t_2023_01_15, s_4W, t_mahindra_and_mahindra, t_1_2_3)}

FAliases == CsvFile(HCanonical, <<CRowJan2W, CRowJanTwoWheeler, CRowJan2Wheeler>>)

FFebruary == CsvFile(HCanonical, <<Row(t_2023_02_20, t_Two_Wheeler, t_HERO_MOTOCORP, t_minus_5)>>)

FDecember == CsvFile(HCanonical, <<<<Str(t_2022_12_05), Str(s_THREE_WHEELER), Str(s_Tata), NaN>>>>)

FCapitalized == CsvFile(HCapitalized, <<Row(t_2023_02_20, s_2W, s_Hero, t_7)>>)

FRegistrationDateSpaced ==
    CsvFile(<<h_Registration_Date, h_Category, h_Count>>,
            <<<<Str(t_2023_01_15), Str(s_2W), Str(t_100)>>>>)

FRegistrationDate ==
    CsvFile(<<h_registration_date, c_category, h_count>>,
            <<<<Str(t_2023_02_20), Str(s_3W), Str(t_7)>>, <<Str(t_tbd), Str(s_3W), Str(t_7)>>>>)

FDateCount == CsvFile(<<h_Date, h_Count>>, <<<<Str(t_2023_01_15), Str(t_100)>>>>)

FDateRegistrations ==
    CsvFile(<<h_Date, h_Registrations>>, <<<<Str(t_2023_01_15), Str(t_minus_5)>>>>)

FNoManufacturer ==
    CsvFile(<<c_date, c_registrations, c_category>>,
            <<<<Str(t_2023_02_20), Str(t_50), Str(s_TWO_WHEELER)>>>>)

FNoCategory ==
    CsvFile(<<c_date, c_registrations, c_manufacturer>>,
            <<<<Str(t_2023_02_20), Str(t_50), Str(s_Hero)>>>>)

\* A CSV file that pd.read_csv raises on, and a file that is no CSV file.
FUnreadable == [ext |-> x_csv, readable |-> FALSE, cols |-> <<>>, rows |-> <<>>]

FNotCsv == [ext |-> x_txt, readable |-> TRUE, cols |-> <<>>, rows |-> <<>>]

\* The files a data directory is filled from.
CFiles ==
    {CsvFile(HCanonical, <<r>>) : r \in CRows}
    \cup {FAliases, FCapitalized, FRegistrationDateSpaced, FRegistrationDate, FDateCount,
          FDateRegistrations,
          FNoManufacturer, FNoCategory, FUnreadable, FNotCsv}

MaxFiles == 2

\* A directory listing: the k-th entry is named "<k>.csv" or "<k>.txt".
DirEntry(k, f) ==
    [name |-> <<Digits[k + 1]>> \o f.ext, readable |-> f.readable,
     cols |-> f.cols, rows |-> f.rows]

CDirs ==
    UNION {{[k \in 1..n |-> DirEntry(k, fs[k])] : fs \in [1..n -> CFiles]} : n \in 1..MaxFiles}

InitClean ==
    /\ files \in CDirs
    /\ loaded = NotCalled
    /\ cleaned = NotCalled
    /\ metrics = NotCalled
    /\ cpc = "start"
    /\ GrowthIdle
    /\ PipelineIdle

\* df = load_data(data_dir)
LoadData ==
    /\ cpc = "start"
    /\ loaded' = [raised |-> "", value |-> load_data(files)]
    /\ cpc' = "loaded"
    /\ UNCHANGED <<gdf, gcol, gout, files, cleaned, metrics, db, outdir, run, last, dbfile, procdir, dash>>

\* df_clean = clean_data(df), reached only when df is not None
CleanData ==
    /\ cpc = "loaded"
    /\ loaded.value # None
    /\ cleaned' = clean_data(loaded.value)
    /\ cpc' = "cleaned"
    /\ UNCHANGED <<gdf, gcol, gout, files, loaded, metrics, db, outdir, run, last, dbfile, procdir, dash>>

\* if 'category' in df.columns: calculate_growth_metrics(df, group_col='category')
MetricsByCategory ==
    /\ cpc \in {"cleaned", "metrics"}
    /\ cleaned.raised = ""
    /\ HasCol(cleaned.df, c_category)
    /\ metrics' = [group_col |-> c_category,
                   out |-> calculate_growth_metrics(cleaned.df, c_category)]
    /\ cpc' = "metrics"
    /\ UNCHANGED <<gdf, gcol, gout, files, loaded, cleaned, db, outdir, run, last, dbfile, procdir, dash>>

\* if 'manufacturer' in df.columns: calculate_growth_metrics(df, group_col='manufacturer')
MetricsByManufacturer ==
    /\ cpc \in {"cleaned", "metrics"}
    /\ cleaned.raised = ""
    /\ HasCol(cleaned.df, c_manufacturer)
    /\ metrics' = [group_col |-> c_manufacturer,
                   out |-> calculate_growth_metrics(cleaned.df, c_manufacturer)]
    /\ cpc' = "metrics"
    /\ UNCHANGED <<gdf, gcol, gout, files, loaded, cleaned, db, outdir, run, last, dbfile, procdir, dash>>

NextClean == LoadData \/ CleanData \/ MetricsByCategory \/ MetricsByManufacturer

SpecClean == InitClean /\ [][NextClean]_vars

-----------------------------------------------------------------------------
(* Claims about load_data and clean_data (SpecClean) *)

Cleaned == cpc \in {"cleaned", "metrics"}

\* Two readable CSV files name a column by headers that differ only in case,
\* surrounding spaces, or space versus underscore.
CosmeticHeaderPair ==
    \E i, j \in 1..Len(files) :
        /\ i # j
        /\ endswith(files[i].name, s_csv) /\ files[i].readable
        /\ endswith(files[j].name, s_csv) /\ files[j].readable
        /\ \E a \in Range(files[i].cols), b \in Range(files[j].cols) :
            a # b /\ standardize_column_name(a) = standardize_column_name(b)

DistinctLabels(df) == \A i, j \in 1..Len(df.cols) : df.cols[i] = df.cols[j] => i = j

\* C6 (as claimed): when two source files carry the same logical column under
\* cosmetically different headers, cleaning does not fail and the cleaned
\* table has no duplicate column names.
C6_HeadersUnify ==
    (Cleaned /\ CosmeticHeaderPair) => cleaned.raised = "" /\ DistinctLabels(cleaned.df)

\* The raw spellings of each canonical category in the source files.
RawSpellings(c) ==
    CASE c = s_2W -> {s_2W, s_TWO_WHEELER, t_two_wheeler_lower, t_Two_Wheeler}
      [] c = s_3W -> {s_3W, s_THREE_WHEELER}
      [] c = s_4W -> {s_4W}

\* The loaded rows that survive cleaning, in the order of the cleaned rows.
RawRows == dropna_all(loaded.value).rows

\* The cleaned rows of a month whose raw category is a spelling of c.
AliasRows(c, p) ==
    LET df == cleaned.df
    IN  {r \in 1..Len(df.rows) :
            /\ RawRows[r][TheCol(df, c_category)].t = "str"
            /\ RawRows[r][TheCol(df, c_category)].s \in RawSpellings(c)
            /\ df.rows[r][TheCol(df, c_date)].t = "date"
            /\ dt_year_month(df.rows[r][TheCol(df, c_date)]) = p}

RECURSIVE SumCounts(_, _)
SumCounts(df, R) ==
    IF R = {} THEN Int2Num(0)
    ELSE LET r == CHOOSE x \in R : TRUE
             v == df.rows[r][TheCol(df, c_registrations)]
         IN  IF IsNA(v) THEN SumCounts(df, R \ {r}) ELSE FAdd(SumCounts(df, R \ {r}), v)

CategoryMetrics ==
    cpc = "metrics" /\ metrics.group_col = c_category /\ metrics.out.raised = ""

MonthsOfCleaned ==
    {dt_year_month(cleaned.df.rows[r][TheCol(cleaned.df, c_date)]) :
        r \in {x \in 1..Len(cleaned.df.rows) :
                  cleaned.df.rows[x][TheCol(cleaned.df, c_date)].t = "date"}}

\* C9: records whose raw category values are aliases of one canonical
\* category fall into one group: a month that holds such records has exactly
\* one monthly row for the canonical value, its total is the sum of all of
\* them, and its growth is absent when it is the group's first month.
C9_AliasesOneGroup ==
    CategoryMetrics =>
        \A c \in {s_2W, s_3W, s_4W} : \A p \in MonthsOfCleaned :
            AliasRows(c, p) # {} =>
                LET hits == {i \in 1..Len(metrics.out.monthly) :
                                /\ metrics.out.monthly[i].period = p
                                /\ metrics.out.monthly[i].group = Str(c)}
                IN  /\ Cardinality(hits) = 1
                    /\ \A i \in hits :
                        /\ metrics.out.monthly[i].registrations
                               = SumCounts(cleaned.df, AliasRows(c, p))
                        /\ EarlierRows(metrics.out.monthly, i) = {}
                               => metrics.out.monthly[i].growth = NaN

\* C9 witness: a first month whose 2W group is made of records spelled
\* 'TWO WHEELER', '2 wheeler' and '2W', followed by a later month of the group.
C9_Witness ==
    /\ CategoryMetrics
    /\ \E p \in MonthsOfCleaned :
        /\ {RawRows[r][TheCol(cleaned.df, c_category)].s : r \in AliasRows(s_2W, p)}
               = {s_TWO_WHEELER, t_two_wheeler_lower, s_2W}
        /\ \E i, j \in 1..Len(metrics.out.monthly) :
            /\ metrics.out.monthly[i].period = p
            /\ metrics.out.monthly[i].group = Str(s_2W)
            /\ metrics.out.monthly[i].registrations = Int2Num(1150)
            /\ metrics.out.monthly[i].growth = NaN
            /\ metrics.out.monthly[j].group = Str(s_2W)
            /\ metrics.out.monthly[j].growth.t = "num"

\* C10 (as claimed): after clean_data every column whose normalized name
\* contains 'date' holds in every row a calendar date or a missing value.
C10_DateColumnsHoldDates ==
    (Cleaned /\ cleaned.raised = "" /\ DistinctLabels(cleaned.df)) =>
        \A k \in 1..Len(cleaned.df.cols) :
            Contains(cleaned.df.cols[k], w_date) =>
                \A r \in 1..Len(cleaned.df.rows) :
                    cleaned.df.rows[r][k].t \in {"date", "nat", "nan"}

-----------------------------------------------------------------------------
(* save_to_sqlite and process_data *)

\* table.to_sql(name, conn, if_exists='replace', index=False)
to_sql(store, name, table) == (name :> table) @@ store

\* DROP TABLE of an existing relation
drop_table(store, name) == [n \in (DOMAIN store) \ {name} |-> store[n]]

\* The three to_sql calls that follow calculate_growth_metrics.
save_growth(store, prefix, g) ==
    LET m == to_sql(store, "monthly_" \o prefix \o "_growth", g.monthly)
        y == to_sql(m, "yearly_" \o prefix \o "_growth", g.yearly)
    IN  to_sql(y, "quarterly_" \o prefix \o "_growth", g.quarterly)

\* Lines 144-152: the manufacturer relations, after the category relations.
save_manufacturer(df, store, g) ==
    IF g.raised # "" THEN [db |-> store, raised |-> g.raised]
    ELSE [db |-> save_growth(store, "manufacturer", g), raised |-> ""]

save_after_category(df, store) ==
    IF HasCol(df, c_manufacturer)
    THEN save_manufacturer(df, store, calculate_growth_metrics(df, c_manufacturer))
    ELSE [db |-> store, raised |-> ""]

\* Lines 137-152: the category relations, after vehicle_registrations.
save_category(df, store, g) ==
    IF g.raised # "" THEN [db |-> store, raised |-> g.raised]
    ELSE save_after_category(df, save_growth(store, "category", g))

save_after_main(df, store) ==
    IF HasCol(df, c_category)
    THEN save_category(df, store, calculate_growth_metrics(df, c_category))
    ELSE save_after_category(df, store)

\* save_to_sqlite(df): the store afterwards and the exception raised ("" when
\* it returns).  Every relation is replaced on its own, in program order; an
\* exception leaves the relations written so far.  A frame with a repeated
\* label cannot be created as a table: the old relation is dropped and the
\* CREATE TABLE fails.
save_to_sqlite(df, store) ==
    IF ~DistinctLabels(df)
    THEN [db |-> drop_table(store, "vehicle_registrations"), raised |-> "OperationalError"]
    ELSE save_after_main(df, to_sql(store, "vehicle_registrations", df))

\* The CSV files process_data writes for one dimension.
growth_csv(id, prefix) ==
    {<<id, "monthly_" \o prefix \o "_growth">>, <<id, "yearly_" \o prefix \o "_growth">>,
     <<id, "quarterly_" \o prefix \o "_growth">>}

\* df_clean after the calls of calculate_growth_metrics on it: lines 138 and
\* 145 inside save_to_sqlite, then lines 180 and 191.
df_after_calls(df) ==
    frame_after_growth_metrics(
        frame_after_growth_metrics(
            frame_after_growth_metrics(
                frame_after_growth_metrics(df, c_category), c_manufacturer),
            c_category),
        c_manufacturer)

\* Line 201: the tuple handed to the caller, built from df_clean and the
\* tables of the calls at lines 180 and 191.
returned_tuple(df, cat, man) ==
    [df_clean |-> df,
     monthly_cat |-> cat.monthly, yearly_cat |-> cat.yearly, quarterly_cat |-> cat.quarterly,
     monthly_man |-> man.monthly, yearly_man |-> man.yearly, quarterly_man |-> man.quarterly]

\* Lines 179-201, after save_to_sqlite returned or raised `sv`: the growth
\* CSV files and the return statement.  Line 201 names monthly_cat ...
\* quarterly_man, which are bound only inside the two if-blocks.
process_saved(df, sv, out, id) ==
    IF sv.raised # ""
    THEN [db |-> sv.db, outdir |-> out, raised |-> sv.raised, returned |-> "",
          value |-> None, saved |-> FALSE, connected |-> TRUE]
    ELSE [db |-> sv.db,
          outdir |-> out
              \cup (IF HasCol(df, c_category) THEN growth_csv(id, "category") ELSE {})
              \cup (IF HasCol(df, c_manufacturer) THEN growth_csv(id, "manufacturer") ELSE {}),
          raised |-> IF HasCol(df, c_category) /\ HasCol(df, c_manufacturer)
                     THEN "" ELSE "UnboundLocalError",
          returned |-> IF HasCol(df, c_category) /\ HasCol(df, c_manufacturer)
                       THEN "tuple" ELSE "",
          value |-> IF HasCol(df, c_category) /\ HasCol(df, c_manufacturer)
                    THEN returned_tuple(df_after_calls(df),
                                        calculate_growth_metrics(df, c_category),
                                        calculate_growth_metrics(df, c_manufacturer))
                    ELSE None,
          saved |-> TRUE, connected |-> TRUE]

\* Lines 171-201, after clean_data returned or raised `c`.
process_cleaned(c, store, out, id) ==
    IF c.raised # ""
    THEN [db |-> store, outdir |-> out, raised |-> c.raised, returned |-> "",
          value |-> None, saved |-> FALSE, connected |-> FALSE]
    ELSE process_saved(c.df, save_to_sqlite(c.df, store),
                       out \cup {<<id, "cleaned_data">>}, id)

\* process_loaded in which a run without data empties the store.
process_loaded_clearing_store(df, store, out, id) ==
    IF df = None
    THEN [db |-> <<>>, outdir |-> out, raised |-> "", returned |-> "None",
          value |-> None, saved |-> FALSE, connected |-> FALSE]
    ELSE process_cleaned(clean_data(df), store, out, id)

\* Lines 164-201, after load_data returned `df`.
process_loaded(df, store, out, id) ==
    IF df = None
    THEN [db |-> store, outdir |-> out, raised |-> "", returned |-> "None",
          value |-> None, saved |-> FALSE, connected |-> FALSE]
    ELSE process_cleaned(clean_data(df), store, out, id)

\* process_data(data_dir): the store and the output directory afterwards,
\* what the call returned ("None" or "tuple") or the exception it raised,
\* whether save_to_sqlite ran to its end, and whether it opened the database
\* (sqlite3.connect creates the file).  `id` stands for the timestamp in
\* the names of the output files.
process_data(dir, store, out, id) == process_loaded(load_data(dir), store, out, id)

-----------------------------------------------------------------------------
(* app.py: the load sequence of the dashboard script *)

\* load_data_from_sqlite(): None with an error message when the database
\* file does not exist; otherwise the seven-tuple, of which only df is kept
\* (a growth relation that cannot be read becomes None inside the tuple).
\* Reading vehicle_registrations is not guarded: it raises when the relation
\* is absent.
load_data_from_sqlite(exists, store) ==
    IF ~exists
    THEN [raised |-> "", value |-> None, errors |-> {"Database not found"}]
    ELSE IF "vehicle_registrations" \notin DOMAIN store
    THEN [raised |-> "DatabaseError", errors |-> {}]
    ELSE [raised |-> "", value |-> [df |-> store["vehicle_registrations"]], errors |-> {}]

\* load_data_from_csv(): seven Nones with an error message when the
\* directory holds no cleaned_data_ file; os.listdir raises when the
\* directory does not exist.  The content of the CSV file is not kept.
load_data_from_csv(exists, out) ==
    IF ~exists
    THEN [raised |-> "FileNotFoundError", errors |-> {}]
    ELSE IF {f \in out : f[2] = "cleaned_data"} = {}
    THEN [raised |-> "", value |-> [df |-> None], errors |-> {"No processed data found"}]
    ELSE [raised |-> "", value |-> [df |-> "latest cleaned_data csv"], errors |-> {}]

\* Lines 161-424: the page built from df.
app_page(df, errors, csv_tried) ==
    IF df # None
    THEN [raised |-> "", page |-> "dashboard", errors |-> errors, csv_tried |-> csv_tried]
    ELSE [raised |-> "", page |-> "no data",
          errors |-> errors \cup {"No data available"}, csv_tried |-> csv_tried]

\* Line 159, the unpacking of what load_data_from_csv returned.
app_from_csv(c, errors) ==
    IF c.raised # ""
    THEN [raised |-> c.raised, page |-> "crashed", errors |-> errors, csv_tried |-> TRUE]
    ELSE app_page(c.value.df, errors \cup c.errors, TRUE)

\* Lines 157-159, with the df unpacked at line 155.
app_loaded(df, errors, dir_exists, out) ==
    IF df = None
    THEN app_from_csv(load_data_from_csv(dir_exists, out), errors)
    ELSE app_page(df, errors, FALSE)

\* Line 155: the seven names are unpacked from what load_data_from_sqlite
\* returned; unpacking None raises TypeError.
app_from_sqlite(s, dir_exists, out) ==
    IF s.raised # ""
    THEN [raised |-> s.raised, page |-> "crashed", errors |-> s.errors, csv_tried |-> FALSE]
    ELSE IF s.value = None
    THEN [raised |-> "TypeError", page |-> "crashed", errors |-> s.errors,
          csv_tried |-> FALSE]
    ELSE app_loaded(s.value.df, s.errors, dir_exists, out)

\* One run of the script: the exception that ended it ("" when it ran to its
\* end), the page shown, the st.error messages, and whether the CSV fallback
\* was attempted.
app(db_exists, store, dir_exists, out) ==
    app_from_sqlite(load_data_from_sqlite(db_exists, store), dir_exists, out)

-----------------------------------------------------------------------------
(* Spec: successive runs of process_data against one store *)

MaxRuns == 2

Dir1(f) == <<DirEntry(1, f)>>
Dir2(f, g) == <<DirEntry(1, f), DirEntry(2, g)>>

\* The data directories a run finds; the last one is empty.
PDirs ==
    {Dir1(FAliases), Dir1(FFebruary), Dir1(FDecember), Dir1(FCapitalized),
     Dir1(FNoManufacturer), Dir1(FNoCategory), Dir1(FDateCount), Dir1(FRegistrationDate),
     Dir1(FUnreadable), Dir1(FNotCsv),
     Dir2(FAliases, FFebruary), Dir2(FUnreadable, FNoCategory), Dir2(FNotCsv, FDateCount),
     Dir2(FDateCount, FNoManufacturer), <<>>}

Init ==
    /\ db = <<>>
    /\ outdir = {}
    /\ run = 0
    /\ last = NotCalled
    /\ dbfile = FALSE
    /\ procdir = FALSE
    /\ dash = NotCalled
    /\ GrowthIdle
    /\ CleanIdle

\* One invocation of process_data, start to end.  `last` records the call:
\* its directory, how it ended, what it returned, the store and the output
\* directory it started from, and whether the run before it had the same
\* input.
ProcessData ==
    /\ run < MaxRuns
    /\ \E dir \in PDirs :
        LET r == process_data(dir, db, outdir, run + 1)
        IN  /\ db' = r.db
            /\ outdir' = r.outdir
            /\ last' = [dir |-> dir, raised |-> r.raised, returned |-> r.returned,
                        value |-> r.value,
                        saved |-> r.saved, before |-> db, outdir_before |-> outdir,
                        repeated |-> run > 0 /\ last.dir = dir,
                        all_saved |-> r.saved /\ (run = 0 \/ last.all_saved)]
            /\ dbfile' = (dbfile \/ r.connected)
    /\ procdir' = TRUE
    /\ run' = run + 1
    /\ UNCHANGED <<gdf, gcol, gout, files, loaded, cleaned, metrics, cpc, dash>>

\* One run of the dashboard script against the store and the output
\* directory as they are.  `dash` records what it found and how it ended.
Dashboard ==
    /\ dash' = [out |-> app(dbfile, db, procdir, outdir),
                db_exists |-> dbfile, dir_exists |-> procdir,
                cleaned_files |-> {f \in outdir : f[2] = "cleaned_data"}]
    /\ UNCHANGED <<gdf, gcol, gout, files, loaded, cleaned, metrics, cpc, db, outdir,
                   run, last, dbfile, procdir>>

Next == ProcessData \/ Dashboard

Spec == Init /\ [][Next]_vars

-----------------------------------------------------------------------------
(* Claims about the store and the run as a whole *)

GrowthRelations(prefix) ==
    {"monthly_" \o prefix \o "_growth", "yearly_" \o prefix \o "_growth",
     "quarterly_" \o prefix \o "_growth"}

\* The three growth relations of a dimension are the ones computed from `df`.
RelationsComputedFrom(df, group_col, prefix) ==
    GrowthRelations(prefix) \subseteq DOMAIN db
        /\ save_growth(db, prefix, calculate_growth_metrics(df, group_col)) = db

\* Present iff the stored registrations have the dimension's column, and then
\* computed from them.
DimensionCurrent(group_col, prefix) ==
    IF HasCol(db["vehicle_registrations"], group_col)
    THEN RelationsComputedFrom(db["vehicle_registrations"], group_col, prefix)
    ELSE GrowthRelations(prefix) \cap DOMAIN db = {}

\* C4 (as claimed): after any sequence of runs that each finish
\* save_to_sqlite, the three growth relations of a dimension are present in
\* the store iff the latest run's input had that dimension's column, and each
\* present growth relation was computed from the vehicle_registrations
\* relation currently in the store; none of an earlier run survives.
C4_GrowthRelationsCurrent ==
    (run > 0 /\ last.all_saved) =>
        /\ DimensionCurrent(c_category, "category")
        /\ DimensionCurrent(c_manufacturer, "manufacturer")

\* The cleaned input of the latest run.
LastInput == clean_data(load_data(last.dir))

HasCountColumn(df) == \E k \in 1..Len(df.cols) : is_numeric_name(df.cols[k])

\* The latest run read readable input with a date column and a count column
\* that lacks the category column, the manufacturer column, or both.
MissingDimensionRun ==
    /\ run > 0
    /\ load_data(last.dir) # None
    /\ LastInput.raised = ""
    /\ DistinctLabels(LastInput.df)
    /\ HasCol(LastInput.df, c_date)
    /\ HasCountColumn(LastInput.df)
    /\ ~(HasCol(LastInput.df, c_category) /\ HasCol(LastInput.df, c_manufacturer))

\* C5 (as claimed): a run of process_data over readable input with a date
\* column and a count column but without a dimension column writes
\* vehicle_registrations with all input rows and completes normally: it
\* returns to the caller without raising.
C5_MissingDimensionCompletes ==
    MissingDimensionRun =>
        /\ last.saved
        /\ db["vehicle_registrations"] = LastInput.df
        /\ last.raised = ""

-----------------------------------------------------------------------------
(* Further claims about clean_data (SpecClean) *)

AllMissing(row) == \A k \in 1..Len(row) : IsNA(row[k])

ValidDate(df, r) == \A k \in ColIdx(df, c_date) : df.rows[r][k].t = "date"

\* C11 (as claimed): every row of the table returned by clean_data has a
\* valid (non-missing) date, and no row of it has all of its fields missing.
C11_RowsHaveValidDate ==
    (Cleaned /\ cleaned.raised = "" /\ IsSeries(cleaned.df, c_date)) =>
        \A r \in 1..Len(cleaned.df.rows) :
            ValidDate(cleaned.df, r) /\ ~AllMissing(cleaned.df.rows[r])

-----------------------------------------------------------------------------
(* Further claims about the store and the run as a whole (Spec) *)

\* The order in which save_to_sqlite writes the relations.
WriteOrder ==
    <<"vehicle_registrations",
      "monthly_category_growth", "yearly_category_growth", "quarterly_category_growth",
      "monthly_manufacturer_growth", "yearly_manufacturer_growth",
      "quarterly_manufacturer_growth">>

\* The relation holds exactly the value it had before the latest run.
AsBefore(name) ==
    /\ name \in DOMAIN db <=> name \in DOMAIN last.before
    /\ name \in DOMAIN db => db[name] = last.before[name]

GrowthTable(g, i) ==
    IF i \in {2, 5} THEN g.monthly ELSE IF i \in {3, 6} THEN g.yearly ELSE g.quarterly

\* The i-th relation holds the value the latest run computes for it.
HoldsNew(df, i) ==
    /\ WriteOrder[i] \in DOMAIN db
    /\ IF i = 1
       THEN db[WriteOrder[i]] = df
       ELSE LET group_col == IF i <= 4 THEN c_category ELSE c_manufacturer
            IN  /\ HasCol(df, group_col)
                /\ calculate_growth_metrics(df, group_col).raised = ""
                /\ db[WriteOrder[i]] =
                       GrowthTable(calculate_growth_metrics(df, group_col), i)

\* The latest run reached save_to_sqlite, and save_to_sqlite raised.
SaveFailed ==
    /\ run > 0
    /\ load_data(last.dir) # None
    /\ LastInput.raised = ""
    /\ ~last.saved

\* C12 (as claimed): if save_to_sqlite fails partway, the relations are
\* written one at a time in WriteOrder; every relation written before the
\* failure holds the new run's values and every relation not yet written
\* holds exactly the value it had before the run (absent if it never existed).
C12_PartialWriteKeepsPrevious ==
    SaveFailed =>
        \E k \in 0..Len(WriteOrder) :
            \A i \in 1..Len(WriteOrder) :
                IF i <= k
                THEN HoldsNew(LastInput.df, i) \/ AsBefore(WriteOrder[i])
                ELSE AsBefore(WriteOrder[i])

\* The dashboard ran when the store had never been written: no database file
\* and no processed data.
DashboardOnEmptyStore ==
    dash # NotCalled /\ ~dash.db_exists /\ dash.cleaned_files = {}

\* C13 (as claimed): when the persisted store has never been written, the
\* dashboard reaches its 'No data available' state without crashing: the
\* failed database load is handled, the CSV fallback is attempted, and the
\* no-data message is shown.
C13_DashboardNoData ==
    DashboardOnEmptyStore =>
        /\ dash.out.raised = ""
        /\ dash.out.csv_tried
        /\ dash.out.page = "no data"
        /\ "No data available" \in dash.out.errors

-----------------------------------------------------------------------------
(* Further claims about load_data (SpecClean) *)

IsCsv(f) == endswith(f.name, s_csv)

\* The rows of the readable CSV files of a directory, in order, each with the
\* header of its file.
RECURSIVE ReadableRows(_)
ReadableRows(dir) ==
    IF dir = <<>> THEN <<>>
    ELSE (IF IsCsv(Head(dir)) /\ Head(dir).readable
          THEN [r \in 1..Len(Head(dir).rows) |->
                   [cols |-> Head(dir).cols, row |-> Head(dir).rows[r]]]
          ELSE <<>>)
         \o ReadableRows(Tail(dir))

\* The row of the table holds the fields of the source row under the same
\* labels, and nothing under the other labels.
SameRecord(df, row, src) ==
    /\ \A j \in 1..Len(src.cols) :
           \E k \in 1..Len(df.cols) : df.cols[k] = src.cols[j] /\ row[k] = src.row[j]
    /\ \A k \in 1..Len(df.cols) :
           (\A j \in 1..Len(src.cols) : src.cols[j] # df.cols[k]) => row[k] = NaN

SomeReadable(dir) == \E i \in 1..Len(dir) : IsCsv(dir[i]) /\ dir[i].readable

SomeUnreadable(dir) == \E i \in 1..Len(dir) : IsCsv(dir[i]) /\ ~dir[i].readable

\* C14: a source file that cannot be read is skipped and never aborts the
\* run: whenever at least one CSV file is readable, load_data returns the
\* concatenation of exactly the rows of the readable files, in order.
C14_UnreadableSkipped ==
    (cpc # "start" /\ SomeReadable(files)) =>
        /\ loaded.raised = ""
        /\ loaded.value # None
        /\ Len(loaded.value.rows) = Len(ReadableRows(files))
        /\ \A r \in 1..Len(loaded.value.rows) :
               SameRecord(loaded.value, loaded.value.rows[r], ReadableRows(files)[r])

\* load_data has returned the rows of a readable file that follows an
\* unreadable one.
C14_Witness ==
    /\ cpc = "loaded"
    /\ Len(files) = 2
    /\ IsCsv(files[1]) /\ ~files[1].readable
    /\ IsCsv(files[2]) /\ files[2].readable
    /\ loaded.value # None
    /\ Len(loaded.value.rows) = Len(files[2].rows)
    /\ Len(loaded.value.rows) >= 2

-----------------------------------------------------------------------------
(* Claims about runs without data and repeated runs (Spec) *)

\* The latest run found no CSV file, or no CSV file it could read.
NoReadableInput == run > 0 /\ ~SomeReadable(last.dir)

\* C15: when the input directory holds no CSV file, or every CSV file in it
\* is unreadable, process_data returns to the caller without raising, writes
\* no relation and no output file, and leaves every relation in the store as
\* it was before the run.
C15_EmptyInputLeavesStore ==
    NoReadableInput =>
        /\ last.raised = ""
        /\ last.returned = "None"
        /\ db = last.before
        /\ outdir = last.outdir_before

\* A run without readable input has followed a run that filled the store.
C15_Witness ==
    /\ NoReadableInput
    /\ run = 2
    /\ last.returned = "None"
    /\ "vehicle_registrations" \in DOMAIN last.before
    /\ "monthly_category_growth" \in DOMAIN db
    /\ last.outdir_before # {}

\* The relations the store holds after a single run over `dir`.
StoreAfterOneRun(dir) == process_data(dir, <<>>, {}, 1).db

\* The tables handed to the caller equal the relations computed from the
\* same frame earlier in the run, and the frame itself is handed back as it
\* was stored, without period columns.
ReturnedAsStored ==
    /\ last.value.df_clean = db["vehicle_registrations"]
    /\ last.value.monthly_cat = db["monthly_category_growth"]
    /\ last.value.yearly_cat = db["yearly_category_growth"]
    /\ last.value.quarterly_cat = db["quarterly_category_growth"]
    /\ last.value.monthly_man = db["monthly_manufacturer_growth"]
    /\ last.value.yearly_man = db["yearly_manufacturer_growth"]
    /\ last.value.quarterly_man = db["quarterly_manufacturer_growth"]

-----------------------------------------------------------------------------
(* Claims about the normalization of category and manufacturer (SpecClean) *)

\* The loaded table as clean_data sees it before any value is converted: its
\* rows are those of the cleaned table, in the same order.
RawTable == rename_columns(dropna_all(loaded.value))

CleanedHas(col) == Cleaned /\ cleaned.raised = "" /\ IsSeries(cleaned.df, col)

RawCell(r, col) == RawTable.rows[r][TheCol(RawTable, col)]

CleanedCell(r, col) == cleaned.df.rows[r][TheCol(cleaned.df, col)]

CanonicalCategories == {s_2W, s_3W, s_4W}

\* C17: category normalization in clean_data is idempotent: each canonical
\* value 2W, 3W, 4W is returned unchanged, and normalizing the result of a
\* normalization yields that same result.
C17_CategoryIdempotent ==
    CleanedHas(c_category) =>
        \A r \in 1..Len(cleaned.df.rows) :
            /\ (RawCell(r, c_category).t = "str"
                    /\ RawCell(r, c_category).s \in CanonicalCategories)
                   => CleanedCell(r, c_category) = RawCell(r, c_category)
            /\ normalize_category(CleanedCell(r, c_category)) = CleanedCell(r, c_category)

\* A cleaned table holds a canonical value that was entered as such, one
\* that was an alias, and a value that is neither.
C17_Witness ==
    /\ CleanedHas(c_category)
    /\ \E r \in 1..Len(cleaned.df.rows) :
           RawCell(r, c_category) = Str(s_2W) /\ CleanedCell(r, c_category) = Str(s_2W)
    /\ \E r \in 1..Len(cleaned.df.rows) :
           /\ RawCell(r, c_category).t = "str"
           /\ RawCell(r, c_category).s \notin CanonicalCategories
           /\ CleanedCell(r, c_category).t = "str"
           /\ CleanedCell(r, c_category).s \notin CanonicalCategories

NonNegative(c) == c.t = "num" /\ c.n >= 0

\* C18 (as claimed): after clean_data every value of the registrations
\* column is either missing or a non-negative number, whatever the source
\* value was.
C18_RegistrationsNonNegative ==
    (Cleaned /\ cleaned.raised = "") =>
        \A k \in ColIdx(cleaned.df, c_registrations) :
            \A r \in 1..Len(cleaned.df.rows) :
                cleaned.df.rows[r][k] = NaN \/ NonNegative(cleaned.df.rows[r][k])

\* The targets of the manufacturer alias table.
CanonicalManufacturers == {p[2] : p \in manufacturer_aliases}

\* C19 (as claimed): manufacturer normalization maps an alias and its
\* canonical name to the same label and is idempotent: each canonical name
\* of the alias table is returned unchanged, and normalizing a normalized
\* value yields that same value.
C19_ManufacturerIdempotent ==
    CleanedHas(c_manufacturer) =>
        \A r \in 1..Len(cleaned.df.rows) :
            /\ (RawCell(r, c_manufacturer).t = "str"
                    /\ RawCell(r, c_manufacturer).s \in CanonicalManufacturers)
                   => CleanedCell(r, c_manufacturer) = RawCell(r, c_manufacturer)
            /\ normalize_manufacturer(CleanedCell(r, c_manufacturer))
                   = CleanedCell(r, c_manufacturer)

====
